---- MODULE Spec2Model ----
(***************************************************************************)
(* Model of the browser task loop of the Ad Watcher Bot                    *)
(* (AdWatcherBot.start_tasks in src/main.py) together with the web driver  *)
(* and the task portal it drives.                                          *)
(*                                                                         *)
(* The program is single threaded.  One iteration of the while loop of     *)
(* start_tasks is modelled by the steps                                    *)
(*   loop   -> read the remaining count        (ReadOk / ReadFail)         *)
(*   check  -> zero check, stall classification, abort check  (Check)      *)
(*   select -> find the task items and click the first one                 *)
(*             (SelectFail / ClickTask)                                    *)
(*   mytask -> the in-progress page           (MyTask)                     *)
(*   video  -> handle_video_and_submit        (HandleVideo)                *)
(*   except -> the outer exception handler    (OuterExcept)                *)
(*   exit   -> the code after the loop        (Exit)                       *)
(* The portal and the driver are the environment: what a read returns,     *)
(* where a click lands and which driver call raises are chosen freely.     *)
(***************************************************************************)
EXTENDS Integers, Sequences, FiniteSets, TLC

(* ---------------------------------------------------------------------- *)
(* Program constants                                                       *)
(* ---------------------------------------------------------------------- *)

\* max_stalled_attempts = 3
max_stalled_attempts == 3

\* last_tasks_remaining = -1 ("Use -1 to indicate the first run"), also the
\* value tasks_remaining holds before the counter has been read.
Sentinel == -1

(* ---------------------------------------------------------------------- *)
(* Bounds of the model                                                     *)
(* ---------------------------------------------------------------------- *)

\* The portal shows a remaining count in 0..MaxRemaining.
MaxRemaining == 7

\* tasks_completed is counted exactly up to MaxCompleted and sticks there
\* (Python integers are unbounded; every test of the program on it is
\* "== 0").
MaxCompleted == 2

\* The counters of the history are exact up to MaxIters and stick there.
MaxIters == 7

\* The streak counters of the history are exact up to MaxStreak.
MaxStreak == 4

\* Number of iterations whose readings the history records: the longest
\* scenario of the specification has five readings.
MaxHist == max_stalled_attempts + 2

\* navigate_to_task_list is called up to MaxCalls times in a row.
MaxCalls == 6

\* The task list and the in-progress list of the portal hold up to MaxList
\* tasks.
MaxList == 2

\* The fetches of complete_tasks_via_api are counted up to MaxApiIters; the
\* loop itself goes on.
MaxApiIters == 4

Readings == 0..MaxRemaining

\* Shapes of driver.current_url the program distinguishes by substring:
\* "taskList", "/task/video/", "/myTask", anything else.
URLs == {"taskList", "video", "myTask", "other"}

\* self.task_url: never assigned ("unset": __init__ does not create the
\* attribute), a URL that contains "taskList", or another URL.
TaskURLs == {"unset", "taskList", "other"}

VARIABLES
  pc,                   \* position in start_tasks
  stalled_attempts,     \* local of start_tasks
  last_tasks_remaining, \* local of start_tasks
  tasks_completed,      \* local of start_tasks
  tasks_remaining,      \* local of start_tasks (set in every iteration)
  url,                  \* driver.current_url
  ret,                  \* value returned by start_tasks: "none" until it returns
  task_url,             \* self.task_url
  button,               \* the action button of the in-progress page
  \* history variables: they record what happened, no action reads them
  stalled0,             \* stalled_attempts when the current iteration began
  last0,                \* last_tasks_remaining when the current iteration began
  outcome,              \* how the latest iteration ended ("running" meanwhile)
  iters,                \* iterations begun, as long as no reading was lower
  fails,                \* of these, the iterations whose read failed
  streak,               \* latest consecutive iterations that were non-progressing
  nodrop,               \* latest consecutive iterations without a lower reading
  decreased,            \* some reading was lower than the reading before it
  tracked,              \* no read failed and no task attempt raised so far
  readings,             \* while tracked: the reading of each finished iteration
  stalls,               \* while tracked: stalled_attempts after each of them
  nav_calls,            \* calls of navigate_to_task_list (in start_tasks: in
                        \* the current iteration)
  nav_gets,             \* of these, the calls that issued driver.get
  nav_waits,            \* of these, the calls that waited for the task items
  \* handle_video_and_submit
  v_pc,                 \* position in handle_video_and_submit
  required_seconds,     \* local of monitor_video_progress
  watched_seconds,      \* local of monitor_video_progress
  elapsed,              \* time.time() - start_time at the loop test, in seconds
  monitor_ret,          \* value returned by monitor_video_progress (-1 before)
  submit_button,        \* local of submit_completed_task
  page,                 \* the controls submit_completed_task finds on the page
  seen,                 \* history: what the first polls read
  polls,                \* history: number of polls made
  reading,              \* history: what the latest poll read
  warned,               \* history: the steps that logged a warning and went on
  \* complete_tasks_via_api
  a_pc,                 \* position in complete_tasks_via_api
  a_ret,                \* value it returned: "none" until it returns
  picked,               \* task_id of the task picked in this iteration (0: none)
  in_progress_task_id,  \* task_id of the first in-progress task (0: none)
  fetched,              \* history: what the latest getTaskList reported
  sent,                 \* history: the requests sent in this iteration
  a_iters,              \* history: number of task-list fetches
  \* main and run
  m_pc,                 \* position in main / run
  args_complete,        \* args.complete
  args_api,             \* args.api
  default_method,       \* self.default_method
  bot,                  \* main's bot: "none" or "built"
  task_result,          \* what method() returned: "none" before
  exc,                  \* the exception under way, or the one main has handled
  exit_code,            \* value returned by main (-1 before)
  phases,               \* history: the phases started, in order
  failed,               \* history: the phase that raised
  cleanups,             \* history: number of calls of cleanup
  \* the portal
  counts,               \* the remaining counts it answers with (<<>>: any)
  \* check_balance_and_withdraw
  w_pc,                 \* position in check_balance_and_withdraw
  w_pos,                \* the call of run that is next: step 4 or step 9
  withdrawal_items,     \* the portal's withdrawal records
  w_read,               \* history: how this call's read of the records ended
  submitted             \* history: number of clicks on the form's Submit

vars == <<pc, stalled_attempts, last_tasks_remaining, tasks_completed,
          tasks_remaining, url, ret, stalled0, last0, outcome, iters, fails,
          streak, nodrop, decreased, tracked, readings, stalls, task_url,
          nav_calls, nav_gets, nav_waits, button,
          v_pc, required_seconds, watched_seconds, elapsed, monitor_ret,
          submit_button, page, seen, polls, reading, warned,
          a_pc, a_ret, picked, in_progress_task_id, sent, fetched, a_iters,
          m_pc, args_complete, args_api, default_method, bot, task_result,
          exc, exit_code, phases, failed, cleanups, counts,
          w_pc, w_pos, withdrawal_items, w_read, submitted>>

prog == <<stalled_attempts, last_tasks_remaining, tasks_completed,
          tasks_remaining, url, ret, task_url>>

\* the counts of the navigation
navs == <<nav_calls, nav_gets, nav_waits>>

\* the state of handle_video_and_submit, but the URL
videov == <<v_pc, required_seconds, watched_seconds, elapsed, monitor_ret,
            submit_button, page, seen, polls, reading, warned>>

\* the state of start_tasks, but the URL
loopv == <<pc, stalled_attempts, last_tasks_remaining, tasks_completed,
           tasks_remaining, ret, stalled0, last0, outcome, iters, fails,
           streak, nodrop, decreased, tracked, readings, stalls, task_url,
           nav_calls, nav_gets, nav_waits, button>>

\* the state of complete_tasks_via_api
apiv == <<a_pc, a_ret, picked, in_progress_task_id, sent, fetched, a_iters>>

\* the state of main and run
runv == <<m_pc, args_complete, args_api, default_method, bot, task_result,
          exc, exit_code, phases, failed, cleanups>>

\* the state of check_balance_and_withdraw and of the withdrawal records
withdrawv == <<w_pc, w_pos, withdrawal_items, w_read, submitted>>

\* what the actions of start_tasks and of the navigation leave alone
notLoop == <<videov, apiv, runv, counts, withdrawv>>

\* what the actions of handle_video_and_submit leave alone
notVideo == <<loopv, apiv, runv, counts, withdrawv>>

\* what the actions of complete_tasks_via_api leave alone
notApi == <<loopv, url, videov, runv, counts, withdrawv>>

\* what the actions of main and run leave alone
notRun == <<loopv, url, videov, apiv, counts, withdrawv>>

(* ---------------------------------------------------------------------- *)
(* Pure parts of start_tasks                                               *)
(* ---------------------------------------------------------------------- *)

\* while stalled_attempts < max_stalled_attempts
\* (mutant: "<=" in place of "<")
LoopGuard_OffByOne(s) == s <= max_stalled_attempts
LoopGuard(s) == s < max_stalled_attempts

\* return False if tasks_completed == 0 else True
\* (mutant: True whatever tasks_completed is)
ZeroReturn_Always(tc) == "True"
ZeroReturn(tc) == IF tc = 0 THEN "False" ELSE "True"

\* if last_tasks_remaining != -1 and tasks_remaining >= last_tasks_remaining:
\*     stalled_attempts += 1
\* else:
\*     stalled_attempts = 0
\* (mutants: ">" in place of ">=", and the test of the sentinel left out)
Classify_Strict(tr, last, s) ==
  IF last # Sentinel /\ tr > last THEN s + 1 ELSE 0
Classify_NoSentinel(tr, last, s) ==
  IF tr >= last THEN s + 1 ELSE 0
Classify(tr, last, s) ==
  IF last # Sentinel /\ tr >= last THEN s + 1 ELSE 0

\* if stalled_attempts >= max_stalled_attempts: ... break
\* (mutant: ">" in place of ">=")
AbortCheck_Late(s) == s > max_stalled_attempts
AbortCheck(s) == s >= max_stalled_attempts

\* the code after the loop: return False when stalled, else True
\* (mutant: True whatever the counter is)
ExitValue_AlwaysTrue(s) == "True"
ExitValue(s) == IF s >= max_stalled_attempts THEN "False" ELSE "True"

\* tasks_completed += 1
\* (mutant: the increment left out)
Inc_Never(n) == n
Inc(n) == IF n < MaxCompleted THEN n + 1 ELSE n

\* counting in the history
Tick(n) == IF n < MaxIters THEN n + 1 ELSE n
TickStreak(n) == IF n < MaxStreak THEN n + 1 ELSE n

\* the texts the action button of an in-progress task is shown with
ButtonTexts == {<<"Submit">>, <<"Review">>}

\* no button: the browser is not on the in-progress page, or find_element
\* does not find the pane, the cell or the button
NoTaskButton == [found |-> FALSE, text |-> <<>>]

\* the button as find_element yields it: not found, or found with its text
TaskButtons ==
  {NoTaskButton} \cup {[found |-> TRUE, text |-> t] : t \in ButtonTexts}

\* str.lower() on the words of a button text
LowerWord(w) ==
  CASE w = "Submit" -> "submit"
    [] w = "Review" -> "review"
    [] OTHER -> w

\* "submit" in button.text.lower()
\* (mutant: the test left out)
IsSubmit_Always(text) == TRUE
IsSubmit(text) == \E i \in 1..Len(text) : LowerWord(text[i]) = "submit"

(* ---------------------------------------------------------------------- *)
(* History bookkeeping                                                     *)
(* ---------------------------------------------------------------------- *)

\* An iteration begins; dec tells whether some reading, this one included,
\* was lower than the one before it.
Begin(dec) ==
  /\ stalled0' = stalled_attempts
  /\ last0' = last_tasks_remaining
  /\ iters' = IF dec THEN 0 ELSE Tick(iters)
  /\ nav_calls' = 0
  /\ nav_gets' = 0
  /\ nav_waits' = 0

\* The reading of the current iteration is the first one or lower than the
\* reading before it.
LowerReading ==
  /\ tasks_remaining # Sentinel
  /\ (last0 = Sentinel \/ tasks_remaining < last0)

\* An iteration ends as `kind`; `lower` tells whether its reading was the
\* first or a lower one.  A non-progressing iteration is one with a read
\* failure, a reading that is not lower, or a task attempt that raised.
EndIter(kind, lower) ==
  /\ outcome' = kind
  /\ fails' = IF kind = "read_fail" /\ ~decreased THEN Tick(fails) ELSE fails
  /\ streak' = IF kind = "zero" THEN streak
               ELSE IF lower /\ kind = "completed" THEN 0
               ELSE TickStreak(streak)
  /\ nodrop' = IF kind = "zero" THEN nodrop
               ELSE IF lower THEN 0 ELSE TickStreak(nodrop)

\* a failure ends the recording of readings
Untrack ==
  /\ tracked' = FALSE
  /\ readings' = <<>>
  /\ stalls' = <<>>

\* a failure-free iteration ends with reading r and stalled count s
Record(r, s) ==
  IF tracked
  THEN /\ tracked' = TRUE
       /\ readings' = Append(readings, r)
       /\ stalls' = Append(stalls, s)
  ELSE UNCHANGED <<tracked, readings, stalls>>

(* ---------------------------------------------------------------------- *)
(* handle_video_and_submit: constants and pure parts                       *)
(* ---------------------------------------------------------------------- *)

\* required_seconds = 10  # Default fallback
default_required_seconds == 10

\* max_wait_time = 600
max_wait_time == 600

\* marks a value that has not been read or returned yet
NoValue == Sentinel

\* the "Currently watched N seconds" label shows N in 0..MaxWatched
MaxWatched == 11

\* the numbers the "Watch N seconds" label is read with
Requirements == {0, 5, 10}

\* the readings of the example of P4
P4Readings == <<3, 6, 9, 11>>

\* the history keeps what the first MaxSeen polls read
MaxSeen == Len(P4Readings)

\* if watched_seconds >= required_seconds: (in the poll)
\* (mutant: ">" in place of ">=")
Achieved_Strict(w, r) == w > r
Achieved(w, r) == w >= r

\* return required_seconds (in the poll, requirement met)
\* (mutant: the reading is returned)
EarlyReturn_Reading(w, r) == w
EarlyReturn(w, r) == r

\* after the poll window: return required_seconds when the requirement is
\* met, else watched_seconds
TimeoutReturn(w, r) == IF w >= r THEN r ELSE w

\* A control of the page as submit_completed_task sees it: element.text as a
\* sequence of words; where the element sits ("button": a button with the
\* text in its own text node, "button_span": a button with the text in a
\* span or div inside it, "div": not inside a button); the class or
\* attribute the class and attribute selectors look at; and whether
\* is_displayed() and is_enabled() both hold.
Labels == {<<"Submit", "Complete", "Task">>, <<"Submit">>, <<"Reset", "Task">>}
Tags == {"button", "button_span", "div"}
Classes == {"none", "mybutton", "submit"}
Controls == [label : Labels, tag : Tags, cls : Classes, ok : BOOLEAN]

\* a page holds up to MaxControls controls, in document order
MaxControls == 2
Pages == UNION {[1..n -> Controls] : n \in 0..MaxControls}

\* submit_button = None
NoButton == [label |-> <<>>, tag |-> "none", cls |-> "none", ok |-> FALSE]

\* the page is whatever the portal shows when the submit step begins
AnyPage == <<[label |-> <<>>, tag |-> "any", cls |-> "any", ok |-> FALSE]>>

\* str.lower() on the words of the labels
Lower(w) ==
  CASE w = "Submit" -> "submit"
    [] w = "Complete" -> "complete"
    [] w = "Task" -> "task"
    [] w = "Reset" -> "reset"
    [] OTHER -> w

\* phrase in text, for texts and phrases made of whole words
Contains(text, phrase) ==
  \E i \in 1..Len(text) :
    /\ i + Len(phrase) - 1 <= Len(text)
    /\ SubSeq(text, i, i + Len(phrase) - 1) = phrase

\* 'reset' in element.text.lower()
\* (mutant: without lower())
HasReset_CaseSensitive(text) == Contains(text, <<"reset">>)
HasReset(text) == Contains([i \in 1..Len(text) |-> Lower(text[i])], <<"reset">>)

\* submit_selectors, in the order of the list.  An XPath of the form
\* //button[contains(text(), 'X')] looks at the text node of a button, one of
\* the form //span[contains(text(), 'X')]/ancestor::button at a span or div
\* inside a button; the CSS selectors look at classes and attributes.  The
\* 4th and 5th entries are not valid CSS (text()=, :contains): find_elements
\* raises and the selector is skipped.
submit_selectors ==
  << [kind |-> "text", tags |-> {"button"}, phrase |-> <<"Submit", "Complete", "Task">>],
     [kind |-> "text", tags |-> {"button_span"}, phrase |-> <<"Submit", "Complete", "Task">>],
     [kind |-> "text", tags |-> {"button_span"}, phrase |-> <<"Submit", "Complete", "Task">>],
     [kind |-> "invalid", tags |-> {}, phrase |-> <<>>],
     [kind |-> "invalid", tags |-> {}, phrase |-> <<>>],
     [kind |-> "text", tags |-> {"button"}, phrase |-> <<"Submit", "Complete">>],
     [kind |-> "text", tags |-> {"button"}, phrase |-> <<"Complete", "Task">>],
     [kind |-> "text", tags |-> {"button"}, phrase |-> <<"Submit", "Task">>],
     [kind |-> "mybutton", tags |-> {}, phrase |-> <<>>],
     [kind |-> "mybutton", tags |-> {}, phrase |-> <<>>],
     [kind |-> "text", tags |-> {"button"}, phrase |-> <<"Submit">>],
     [kind |-> "text", tags |-> {"button"}, phrase |-> <<"submit">>],
     [kind |-> "text", tags |-> {"button"}, phrase |-> <<"SUBMIT">>],
     [kind |-> "submit", tags |-> {}, phrase |-> <<>>],
     [kind |-> "submit", tags |-> {}, phrase |-> <<>>],
     [kind |-> "submit", tags |-> {}, phrase |-> <<>>],
     [kind |-> "submit", tags |-> {}, phrase |-> <<>>],
     [kind |-> "submit", tags |-> {}, phrase |-> <<>>] >>

\* find_elements(selector) returns the control c
Matches(sel, c) ==
  CASE sel.kind = "text" -> c.tag \in sel.tags /\ Contains(c.label, sel.phrase)
    [] sel.kind = "invalid" -> FALSE
    [] OTHER -> c.cls = sel.kind

\* the element loop of one selector: the positions of the elements that are
\* displayed, enabled and not a reset button
Eligible(sel, pg) ==
  {i \in 1..Len(pg) : Matches(sel, pg[i]) /\ pg[i].ok /\ ~HasReset(pg[i].label)}

\* the selector loop from the k-th selector on: the first eligible element
\* of the first selector that has one
RECURSIVE TrySelectors(_, _)
TrySelectors(k, pg) ==
  IF k > Len(submit_selectors) THEN NoButton
  ELSE LET e == Eligible(submit_selectors[k], pg)
       IN  IF e # {}
           THEN pg[CHOOSE i \in e : \A j \in e : i <= j]
           ELSE TrySelectors(k + 1, pg)

\* the selector loop of submit_completed_task
SubmitSelect(pg) == TrySelectors(1, pg)

\* what the selector loop can end with, over all pages: nothing, or a control
\* that some selector finds and that is displayed, enabled and not a reset
\* button
SelectResults ==
  {NoButton} \cup
  {c \in Controls :
     /\ c.ok
     /\ ~HasReset(c.label)
     /\ \E k \in 1..Len(submit_selectors) : Matches(submit_selectors[k], c)}

\* if not submit_button: ... raise Exception("... button not found")
\* (mutant: never)
NotFound_Never(b) == FALSE
NotFound(b) == b = NoButton

\* handle_video_and_submit at position p, the page being pg
VideoLocals(p, pg) ==
  /\ v_pc = p
  /\ required_seconds = default_required_seconds
  /\ watched_seconds = 0
  /\ elapsed = 0
  /\ monitor_ret = NoValue
  /\ submit_button = NoButton
  /\ page = pg
  /\ seen = <<>>
  /\ polls = 0
  /\ reading = NoValue
  /\ warned = {}

\* complete_tasks_via_api at position p
ApiLocals(p) ==
  /\ a_pc = p
  /\ a_ret = "none"
  /\ picked = 0
  /\ in_progress_task_id = 0
  /\ sent = <<>>
  /\ fetched = [resp |-> "none", list |-> <<>>, remaining |-> 0]
  /\ a_iters = 0

\* main at position p, with the command line and the environment given
RunLocals(p, complete, api, method) ==
  /\ m_pc = p
  /\ args_complete = complete
  /\ args_api = api
  /\ default_method = method
  /\ bot = "none"
  /\ task_result = "none"
  /\ exc = "none"
  /\ exit_code = NoValue
  /\ phases = <<>>
  /\ failed = "none"
  /\ cleanups = 0

\* check_balance_and_withdraw at position p, with the call of run that is
\* next and the records the portal holds
WithdrawLocals(p, pos, items) ==
  /\ w_pc = p
  /\ w_pos = pos
  /\ withdrawal_items = items
  /\ w_read = "none"
  /\ submitted = 0

\* handle_video_and_submit, complete_tasks_via_api and main are not running
Others ==
  /\ VideoLocals("idle", AnyPage)
  /\ ApiLocals("idle")
  /\ RunLocals("idle", FALSE, FALSE, "browser")

\* start_tasks at position p with its locals as it initialises them, and an
\* empty history
Locals(p) ==
  /\ pc = p
  /\ stalled_attempts = 0
  /\ last_tasks_remaining = Sentinel
  /\ tasks_completed = 0
  /\ tasks_remaining = Sentinel
  /\ ret = "none"
  /\ stalled0 = 0
  /\ last0 = Sentinel
  /\ outcome = "none"
  /\ iters = 0
  /\ fails = 0
  /\ streak = 0
  /\ nodrop = 0
  /\ decreased = FALSE
  /\ tracked = TRUE
  /\ readings = <<>>
  /\ stalls = <<>>
  /\ nav_calls = 0
  /\ nav_gets = 0
  /\ nav_waits = 0
  /\ button = NoTaskButton

\* start_tasks is entered after setup_task_prerequisites has gone through
\* the main path of navigate_to_task_button, which waits for a URL that
\* contains "taskList" and stores it in self.task_url.  (SessionSpec below
\* begins one step earlier and includes the fallback path.)
Init ==
  /\ Locals("loop")
  /\ counts = <<>>
  /\ WithdrawLocals("idle", "done", <<>>)
  /\ task_url = "taskList"
  /\ url = "taskList"
  /\ Others


(* ---------------------------------------------------------------------- *)
(* The loop of start_tasks                                                 *)
(* ---------------------------------------------------------------------- *)

\* The while condition holds, the counter element is found and its text
\* parses to n.
ReadOk ==
  /\ pc = "loop"
  /\ LoopGuard(stalled_attempts)
  /\ \E n \in Readings : tasks_remaining' = n
  /\ pc' = "check"
  /\ outcome' = "running"
  /\ decreased' = (decreased \/ (last_tasks_remaining # Sentinel
                                 /\ tasks_remaining' < last_tasks_remaining))
  /\ Begin(decreased')
  /\ fails' = IF decreased' THEN 0 ELSE fails
  /\ UNCHANGED <<streak, nodrop>>
  /\ IF tracked /\ Len(readings) >= MaxHist
     THEN Untrack
     ELSE UNCHANGED <<tracked, readings, stalls>>
  /\ UNCHANGED <<stalled_attempts, last_tasks_remaining, tasks_completed,
                 url, ret>>
  /\ UNCHANGED task_url
  /\ UNCHANGED button
  /\ UNCHANGED notLoop

\* The while condition holds and the read raises (element not found within
\* 10 s, or int() fails): tasks_remaining keeps -1.  The handler takes a
\* debug screenshot, counts a stalled attempt and continues; when the
\* screenshot itself raises, the increment is skipped and the exception
\* reaches the outer handler.
ReadFail ==
  /\ pc = "loop"
  /\ LoopGuard(stalled_attempts)
  /\ tasks_remaining' = Sentinel
  /\ Begin(decreased)
  /\ Untrack
  /\ \E shot \in {"ok", "raises"} :
       IF shot = "ok"
       THEN /\ stalled_attempts' = stalled_attempts + 1
            /\ pc' = "loop"
            /\ EndIter("read_fail", FALSE)
       ELSE /\ stalled_attempts' = stalled_attempts
            /\ pc' = "except"
            /\ outcome' = "running"
            /\ UNCHANGED <<fails, streak, nodrop>>
  /\ UNCHANGED <<last_tasks_remaining, tasks_completed, url, ret, decreased>>
  /\ UNCHANGED task_url
  /\ UNCHANGED button
  /\ UNCHANGED notLoop

\* The while condition is false: control falls to the code after the loop.
LoopExit ==
  /\ pc = "loop"
  /\ ~LoopGuard(stalled_attempts)
  /\ pc' = "exit"
  /\ UNCHANGED <<prog, stalled0, last0, outcome, iters, fails, streak,
                 nodrop, decreased, tracked, readings, stalls>>
  /\ UNCHANGED navs
  /\ UNCHANGED button
  /\ UNCHANGED notLoop

\* Zero check, stall classification, update of last_tasks_remaining and
\* abort check, in the order of the code.
Check ==
  /\ pc = "check"
  /\ IF tasks_remaining = 0
     THEN /\ pc' = "done"
          /\ ret' = ZeroReturn(tasks_completed)
          /\ EndIter("zero", LowerReading)
          /\ Record(tasks_remaining, stalled_attempts)
          /\ UNCHANGED <<stalled_attempts, last_tasks_remaining>>
     ELSE /\ stalled_attempts' =
               Classify(tasks_remaining, last_tasks_remaining, stalled_attempts)
          /\ last_tasks_remaining' = tasks_remaining
          /\ ret' = ret
          /\ IF AbortCheck(stalled_attempts')
             THEN /\ pc' = "exit"
                  /\ EndIter("abort", LowerReading)
                  /\ Record(tasks_remaining, stalled_attempts')
             ELSE /\ pc' = "select"
                  /\ UNCHANGED <<outcome, fails, streak, nodrop>>
                  /\ UNCHANGED <<tracked, readings, stalls>>
  /\ UNCHANGED <<tasks_completed, tasks_remaining, url, stalled0, last0,
                 iters, decreased>>
  /\ UNCHANGED <<task_url, navs>>
  /\ UNCHANGED button
  /\ UNCHANGED notLoop

\* The task items are not found within 10 s, none of them is displayed,
\* enabled and carries a thumbnail, or both clicks raise: the inner handlers
\* log, take a screenshot and raise again.
SelectFail ==
  /\ pc = "select"
  /\ pc' = "except"
  /\ Untrack
  /\ UNCHANGED <<prog, stalled0, last0, outcome, iters, fails, streak,
                 nodrop, decreased>>
  /\ UNCHANGED navs
  /\ UNCHANGED button
  /\ UNCHANGED notLoop

\* The first valid task item is clicked and, 3 s later, the URL is read:
\* dispatch on its shape.
ClickTask ==
  /\ pc = "select"
  /\ \E u \in URLs :
       /\ url' = u
       /\ button' \in (IF u = "myTask" THEN TaskButtons ELSE {NoTaskButton})
       /\ pc' = IF u = "video" THEN "video"
                ELSE IF u = "myTask" THEN "mytask"
                ELSE "except"
       /\ IF u \in {"video", "myTask"}
          THEN UNCHANGED <<tracked, readings, stalls>>
          ELSE Untrack
  /\ UNCHANGED <<stalled_attempts, last_tasks_remaining, tasks_completed,
                 tasks_remaining, ret, stalled0, last0, outcome, iters, fails,
                 streak, nodrop, decreased>>
  /\ UNCHANGED <<task_url, navs>>
  /\ UNCHANGED notLoop

\* The in-progress page: the pane, the cell or the button is missing, or
\* the text of the button does not contain "submit", or clicking it does
\* not lead to a video page: raise (the button is gone with the try block).
\* Otherwise go on to the video.
MyTask ==
  /\ pc = "mytask"
  /\ \E u \in URLs :
       IF button.found /\ IsSubmit(button.text)
       THEN /\ url' = u
            /\ pc' = IF u = "video" THEN "video" ELSE "except"
            /\ IF u = "video"
               THEN UNCHANGED <<tracked, readings, stalls, button>>
               ELSE Untrack /\ button' = NoTaskButton
       ELSE /\ url' = url
            /\ pc' = "except"
            /\ Untrack
            /\ button' = NoTaskButton
  /\ UNCHANGED <<stalled_attempts, last_tasks_remaining, tasks_completed,
                 tasks_remaining, ret, stalled0, last0, outcome, iters, fails,
                 streak, nodrop, decreased>>
  /\ UNCHANGED <<task_url, navs>>
  /\ UNCHANGED notLoop

\* handle_video_and_submit returns (the URL may still be the video page when
\* the submit was not confirmed within 15 s) and the task is counted, or it
\* raises.
HandleVideo ==
  /\ pc = "video"
  /\ button' = NoTaskButton
  /\ \E res \in {"returns", "raises"}, u \in URLs :
       IF res = "returns"
       THEN /\ url' = u
            /\ tasks_completed' = Inc(tasks_completed)
            /\ pc' = "loop"
            /\ EndIter("completed", LowerReading)
            /\ Record(tasks_remaining, stalled_attempts)
       ELSE /\ url' = url
            /\ tasks_completed' = tasks_completed
            /\ pc' = "except"
            /\ UNCHANGED <<outcome, fails, streak, nodrop>>
            /\ Untrack
  /\ UNCHANGED <<stalled_attempts, last_tasks_remaining, tasks_remaining,
                 ret, stalled0, last0, iters, decreased>>
  /\ UNCHANGED <<task_url, navs>>
  /\ UNCHANGED notLoop

\* navigate_to_task_list: return at once when "taskList" is in the current
\* URL; else driver.get(self.task_url), then wait up to 10 s for the task
\* items.  Reading self.task_url raises AttributeError when it was never
\* assigned (nothing has been issued then); driver.get raises or loads the
\* page of task_url; the wait finds the items or times out.
\* The result is the URL afterwards, whether driver.get was issued, whether
\* the wait was made, and whether the call raised.
\* (mutant: without the early return)
NavigateToTaskList_Always(u, t, get, wait) ==
  IF t = "unset"
  THEN [url |-> u, gets |-> 0, waits |-> 0, raised |-> TRUE]
  ELSE IF get = "raises"
  THEN [url |-> u, gets |-> 1, waits |-> 0, raised |-> TRUE]
  ELSE [url |-> t, gets |-> 1, waits |-> 1, raised |-> (wait = "timeout")]
NavigateToTaskList(u, t, get, wait) ==
  IF u = "taskList"
  THEN [url |-> u, gets |-> 0, waits |-> 0, raised |-> FALSE]
  ELSE IF t = "unset"
  THEN [url |-> u, gets |-> 0, waits |-> 0, raised |-> TRUE]
  ELSE IF get = "raises"
  THEN [url |-> u, gets |-> 1, waits |-> 0, raised |-> TRUE]
  ELSE [url |-> t, gets |-> 1, waits |-> 1, raised |-> (wait = "timeout")]

\* except Exception (outer): count a stalled attempt, take a debug
\* screenshot, call navigate_to_task_list inside a try of its own that logs
\* whatever it raises.  The screenshot is not guarded: when it raises the
\* exception leaves start_tasks and navigate_to_task_list is not called.
OuterExcept ==
  /\ pc = "except"
  /\ button' = NoTaskButton
  /\ stalled_attempts' = stalled_attempts + 1
  /\ EndIter(IF tasks_remaining = Sentinel THEN "read_fail" ELSE "task_error",
             LowerReading)
  /\ \E shot \in {"ok", "raises"}, get \in {"loads", "raises"},
        wait \in {"found", "timeout"} :
       IF shot = "ok"
       THEN LET r == NavigateToTaskList(url, task_url, get, wait)
            IN  /\ url' = r.url
                /\ nav_calls' = 1
                /\ nav_gets' = r.gets
                /\ nav_waits' = r.waits
                /\ pc' = "loop"
       ELSE /\ url' = url
            /\ UNCHANGED navs
            /\ pc' = "raised"
  /\ UNCHANGED <<last_tasks_remaining, tasks_completed, tasks_remaining, ret,
                 stalled0, last0, iters, decreased, tracked, readings, stalls,
                 task_url>>
  /\ UNCHANGED notLoop

\* The code after the loop.
Exit ==
  /\ pc = "exit"
  /\ ret' = ExitValue(stalled_attempts)
  /\ pc' = "done"
  /\ UNCHANGED <<stalled_attempts, last_tasks_remaining, tasks_completed,
                 tasks_remaining, url, stalled0, last0, outcome, iters, fails,
                 streak, nodrop, decreased, tracked, readings, stalls>>
  /\ UNCHANGED <<task_url, navs>>
  /\ UNCHANGED button
  /\ UNCHANGED notLoop

Next ==
  \/ ReadOk
  \/ ReadFail
  \/ LoopExit
  \/ Check
  \/ SelectFail
  \/ ClickTask
  \/ MyTask
  \/ HandleVideo
  \/ OuterExcept
  \/ Exit

Spec == Init /\ [][Next]_vars

\* The program is one thread that keeps running: every step of it is bounded
\* by a timeout (10 s and 15 s waits, the 600 s poll), so a step that can be
\* taken is taken.
FairSpec == Spec /\ WF_vars(Next)

(* ---------------------------------------------------------------------- *)
(* The session: navigate_to_task_button, then start_tasks                  *)
(* ---------------------------------------------------------------------- *)

\* navigate_to_task_button.  Main path: click the identity button, store
\* driver.current_url in self.task_url and poll until it contains
\* "taskList".  When anything of that raises, the fallback clicks the first
\* button of the task hall and returns without storing or checking a URL:
\* self.task_url is then unassigned, or holds the URL read before the poll
\* raised.  When the fallback click raises too, the exception leaves the
\* function and start_tasks is never called.
NavigateToTaskButton ==
  /\ pc = "setup"
  /\ \E path \in {"main", "fallback", "fails"} :
       \/ /\ path = "main"
          /\ task_url' = "taskList"
          /\ url' = "taskList"
          /\ pc' = "loop"
       \/ /\ path = "fallback"
          /\ task_url' \in {"unset", "other"}
          /\ url' \in {"taskList", "other"}
          /\ pc' = "loop"
       \/ /\ path = "fails"
          /\ task_url' \in {"unset", "other"}
          /\ url' = url
          /\ pc' = "setup_failed"
  /\ UNCHANGED <<stalled_attempts, last_tasks_remaining, tasks_completed,
                 tasks_remaining, ret, stalled0, last0, outcome, iters, fails,
                 streak, nodrop, decreased, tracked, readings, stalls, navs>>
  /\ UNCHANGED button
  /\ UNCHANGED notLoop

\* before navigate_to_task_button: on the home page, no task_url
SessionInit ==
  /\ Locals("setup")
  /\ counts = <<>>
  /\ WithdrawLocals("idle", "done", <<>>)
  /\ task_url = "unset"
  /\ url = "other"
  /\ Others

SessionNext ==
  \/ NavigateToTaskButton
  \/ Next

SessionSpec == SessionInit /\ [][SessionNext]_vars

(* ---------------------------------------------------------------------- *)
(* navigate_to_task_list called repeatedly                                 *)
(* ---------------------------------------------------------------------- *)

\* navigate_to_task_list is called once more, nothing else touching the
\* browser in between; the counts run over the whole row of calls.
CallNavigate ==
  /\ pc = "idle"
  /\ nav_calls < MaxCalls
  /\ \E get \in {"loads", "raises"}, wait \in {"found", "timeout"} :
       LET r == NavigateToTaskList(url, task_url, get, wait)
       IN  /\ url' = r.url
           /\ nav_calls' = nav_calls + 1
           /\ nav_gets' = nav_gets + r.gets
           /\ nav_waits' = nav_waits + r.waits
  /\ UNCHANGED <<pc, stalled_attempts, last_tasks_remaining, tasks_completed,
                 tasks_remaining, ret, stalled0, last0, outcome, iters, fails,
                 streak, nodrop, decreased, tracked, readings, stalls,
                 task_url>>
  /\ UNCHANGED button
  /\ UNCHANGED notLoop

\* start_tasks is not running; the browser is on any page
NavInit ==
  /\ Locals("idle")
  /\ counts = <<>>
  /\ WithdrawLocals("idle", "done", <<>>)
  /\ task_url \in TaskURLs
  /\ url \in URLs
  /\ Others

NavNext == CallNavigate

NavSpec == NavInit /\ [][NavNext]_vars


(* ---------------------------------------------------------------------- *)
(* handle_video_and_submit                                                 *)
(* ---------------------------------------------------------------------- *)

\* what a poll read is appended to the history of the first MaxSeen polls
Seen(r) ==
  /\ polls' = IF polls <= MaxSeen THEN polls + 1 ELSE polls
  /\ seen' = IF polls < MaxSeen THEN Append(seen, r) ELSE <<>>
  /\ reading' = r

\* start_video_playback: the player selectors, the generic selectors, then
\* the check for a status text.  It never raises: when no strategy starts
\* the video (or anything raises) it logs a warning and returns.
StartPlayback ==
  /\ v_pc = "start"
  /\ \E video_started \in BOOLEAN :
       warned' = IF video_started THEN warned ELSE warned \cup {"start"}
  /\ v_pc' = "require"
  /\ UNCHANGED <<required_seconds, watched_seconds, elapsed, monitor_ret,
                 submit_button, page, seen, polls, reading, url>>
  /\ UNCHANGED notVideo

\* monitor_video_progress, before the poll: read the "Watch N seconds"
\* label.  When it is not found within 5 s a warning is logged and the
\* default is kept; when its text holds no number the default is kept too.
ReadRequirement ==
  /\ v_pc = "require"
  /\ \E label \in {"missing", "no_number", "number"}, n \in Requirements :
       /\ required_seconds' = IF label = "number" THEN n
                              ELSE default_required_seconds
       /\ warned' = IF label = "missing" THEN warned \cup {"require"}
                    ELSE warned
  /\ watched_seconds' = 0
  /\ elapsed' = 0
  /\ v_pc' = "poll"
  /\ UNCHANGED <<monitor_ret, submit_button, page, seen, polls, reading, url>>
  /\ UNCHANGED notVideo

\* One pass of the poll loop, the window not being over: the status label
\* shows n seconds, or there is no label, or its text holds no number, or
\* the driver raises (warning, 2 s of sleep instead of 1).
Poll ==
  /\ v_pc = "poll"
  /\ elapsed < max_wait_time
  /\ \E status \in {"number", "missing", "no_number", "raises"} :
     \E n \in (IF status = "number" THEN 0..MaxWatched ELSE {0}) :
       IF status = "number"
       THEN /\ watched_seconds' = n
            /\ Seen(n)
            /\ IF Achieved(n, required_seconds)
               THEN /\ monitor_ret' = EarlyReturn(n, required_seconds)
                    /\ v_pc' = "submit"
                    /\ elapsed' = elapsed
               ELSE /\ monitor_ret' = monitor_ret
                    /\ v_pc' = "poll"
                    /\ elapsed' = elapsed + 1
       ELSE /\ watched_seconds' = watched_seconds
            /\ Seen(NoValue)
            /\ monitor_ret' = monitor_ret
            /\ v_pc' = "poll"
            /\ elapsed' = elapsed + (IF status = "raises" THEN 2 ELSE 1)
  /\ UNCHANGED <<required_seconds, submit_button, page, warned, url>>
  /\ UNCHANGED notVideo

\* The window is over: a warning, and the last known watched_seconds is
\* returned (required_seconds when it is met).
\* (mutant: a timeout below the requirement raises instead of returning)
PollTimeout_Raises ==
  /\ v_pc = "poll"
  /\ elapsed >= max_wait_time
  /\ monitor_ret' = IF watched_seconds >= required_seconds
                    THEN required_seconds ELSE monitor_ret
  /\ warned' = warned \cup {"poll"}
  /\ v_pc' = IF watched_seconds >= required_seconds THEN "submit" ELSE "raised"
  /\ UNCHANGED <<required_seconds, watched_seconds, elapsed, submit_button,
                 page, seen, polls, reading, url>>
  /\ UNCHANGED notVideo
PollTimeout ==
  /\ v_pc = "poll"
  /\ elapsed >= max_wait_time
  /\ monitor_ret' = TimeoutReturn(watched_seconds, required_seconds)
  /\ warned' = warned \cup {"poll"}
  /\ v_pc' = "submit"
  /\ UNCHANGED <<required_seconds, watched_seconds, elapsed, submit_button,
                 page, seen, polls, reading, url>>
  /\ UNCHANGED notVideo

\* submit_completed_task, the selector loop and the test after it: when no
\* control was selected, a screenshot is taken and an exception is raised,
\* which handle_video_and_submit logs and raises again.
\* monitor_video_progress has returned: its locals are gone (they are put
\* back to their initial values) and the history of its polls ends.
LocateSubmit ==
  /\ v_pc = "submit"
  /\ \E b \in (IF page = AnyPage THEN SelectResults ELSE {SubmitSelect(page)}) :
       /\ submit_button' = b
       /\ v_pc' = IF NotFound(b) THEN "raised" ELSE "click"
  /\ required_seconds' = default_required_seconds
  /\ watched_seconds' = 0
  /\ elapsed' = 0
  /\ seen' = <<>>
  /\ polls' = 0
  /\ reading' = NoValue
  /\ UNCHANGED <<monitor_ret, page, warned, url>>
  /\ UNCHANGED notVideo

\* The click: scroll and click, on failure a JavaScript click (warning);
\* when that fails too the exception is raised again.
ClickSubmit ==
  /\ v_pc = "click"
  /\ \E click \in {"ok", "javascript", "fails"} :
       /\ v_pc' = IF click = "fails" THEN "raised" ELSE "confirm"
       /\ warned' = IF click = "javascript" THEN warned \cup {"click"}
                    ELSE warned
  /\ UNCHANGED <<required_seconds, watched_seconds, elapsed, monitor_ret,
                 submit_button, page, seen, polls, reading, url>>
  /\ UNCHANGED notVideo

\* The wait of up to 15 s for the URL to leave the video page: it does, or
\* the wait times out (warning only), or the driver raises something else.
\* Then the success toast is looked for, found or not, and the sub-flow
\* returns.
ConfirmSubmit ==
  /\ v_pc = "confirm"
  /\ \E wait \in {"left", "timeout", "raises"}, u \in URLs \ {"video"} :
       /\ url' = IF wait = "left" THEN u ELSE url
       /\ warned' = IF wait = "timeout" THEN warned \cup {"confirm"}
                    ELSE warned
       /\ v_pc' = IF wait = "raises" THEN "raised" ELSE "returned"
  /\ UNCHANGED <<required_seconds, watched_seconds, elapsed, monitor_ret,
                 submit_button, page, seen, polls, reading>>
  /\ UNCHANGED notVideo

\* handle_video_and_submit is entered on a video page
VideoInit ==
  /\ Locals("idle")
  /\ counts = <<>>
  /\ WithdrawLocals("idle", "done", <<>>)
  /\ task_url = "taskList"
  /\ url = "video"
  /\ VideoLocals("start", AnyPage)
  /\ ApiLocals("idle")
  /\ RunLocals("idle", FALSE, FALSE, "browser")

VideoNext ==
  \/ StartPlayback
  \/ ReadRequirement
  \/ Poll
  \/ PollTimeout
  \/ LocateSubmit
  \/ ClickSubmit
  \/ ConfirmSubmit

VideoSpec == VideoInit /\ [][VideoNext]_vars

\* submit_completed_task on a given page
SubmitInit ==
  /\ Locals("idle")
  /\ counts = <<>>
  /\ WithdrawLocals("idle", "done", <<>>)
  /\ task_url = "taskList"
  /\ url = "video"
  /\ \E pg \in Pages : VideoLocals("submit", pg)
  /\ ApiLocals("idle")
  /\ RunLocals("idle", FALSE, FALSE, "browser")

SubmitNext ==
  \/ LocateSubmit
  \/ ClickSubmit
  \/ ConfirmSubmit

SubmitSpec == SubmitInit /\ [][SubmitNext]_vars

\* start_tasks with handle_video_and_submit as one step of it, or
\* handle_video_and_submit step by step
AttemptInit == Init \/ VideoInit

AttemptNext == Next \/ VideoNext

AttemptSpec == AttemptInit /\ [][AttemptNext]_vars

(* ---------------------------------------------------------------------- *)
(* main and run                                                            *)
(* ---------------------------------------------------------------------- *)

\* self.default_method
Methods == {"browser", "api"}

\* how a call ends: it returns, an Exception leaves it, or the user
\* interrupts it
Outcomes == {"ok", "Exception", "KeyboardInterrupt"}

\* the condition of run's if: method() or self.complete_all_steps
AllSteps_ResultOnly(result, complete) == result = "True"
AllSteps(result, complete) == result = "True" \/ complete

\* what the except clauses of main return: the clause for Exception returns
\* 1, the clause for KeyboardInterrupt only logs
ExceptReturn_Fallthrough(e) == NoValue
ExceptReturn(e) == IF e = "Exception" THEN 1 ELSE NoValue

\* bot = AdWatcherBot(complete_all_steps=args.complete), then the branch on
\* args.api
Construct ==
  /\ m_pc = "main"
  /\ \E o \in Outcomes :
       IF o = "ok"
         THEN /\ bot' = "built"
              /\ m_pc' = IF args_api THEN "api" ELSE "login"
              /\ UNCHANGED <<exc, failed>>
         ELSE /\ exc' = o
              /\ failed' = "construct"
              /\ m_pc' = "main_except"
              /\ UNCHANGED bot
  /\ UNCHANGED <<args_complete, args_api, default_method, task_result,
                 exit_code, phases, cleanups>>
  /\ UNCHANGED notRun

\* --api: bot.complete_tasks_via_api() and the log message on its result
ApiOnly ==
  /\ m_pc = "api"
  /\ phases' = Append(phases, "tasks")
  /\ \/ \E r \in {"True", "False"} :
          /\ task_result' = r
          /\ m_pc' = "main_finally"
          /\ UNCHANGED <<exc, failed>>
     \/ \E o \in Outcomes \ {"ok"} :
          /\ exc' = o
          /\ failed' = "tasks"
          /\ m_pc' = "main_except"
          /\ UNCHANGED task_result
  /\ UNCHANGED <<args_complete, args_api, default_method, bot, exit_code,
                 cleanups>>
  /\ UNCHANGED notRun

\* one phase of run: started at position from, it goes on at position to
\* when it returns and to run's finally when it raises
Phase(from, name, raises, to) ==
  /\ m_pc = from
  /\ phases' = Append(phases, name)
  /\ \E o \in {"ok"} \cup raises :
       IF o = "ok"
         THEN /\ m_pc' = to
              /\ UNCHANGED <<exc, failed>>
         ELSE /\ exc' = o
              /\ failed' = name
              /\ m_pc' = "run_finally"
  /\ UNCHANGED <<args_complete, args_api, default_method, bot, task_result,
                 exit_code, cleanups>>
  /\ UNCHANGED notRun

\* Step 1: self.login_to_website()
Login == Phase("login", "login", Outcomes, "setup")

\* Step 2: self.setup_task_prerequisites()
SetupTaskPrerequisites == Phase("setup", "setup", Outcomes, "tasks")

\* Step 3: method(), and the branch on its result
TaskMethod ==
  /\ m_pc = "tasks"
  /\ phases' = Append(phases, "tasks")
  /\ \/ \E r \in {"True", "False"} :
          /\ task_result' = r
          /\ m_pc' = IF AllSteps(r, args_complete) THEN "withdraw" ELSE "last"
          /\ UNCHANGED <<exc, failed>>
     \/ \E o \in Outcomes \ {"ok"} :
          /\ exc' = o
          /\ failed' = "tasks"
          /\ m_pc' = "run_finally"
          /\ UNCHANGED task_result
  /\ UNCHANGED <<args_complete, args_api, default_method, bot, exit_code,
                 cleanups>>
  /\ UNCHANGED notRun

\* Step 4: self.check_balance_and_withdraw()
Withdraw == Phase("withdraw", "withdraw", Outcomes, "screenshot")

\* Step 5: self.wait_and_screenshot()
WaitAndScreenshot == Phase("screenshot", "screenshot", Outcomes, "open")

\* Step 6: self.open_whatsapp()
OpenWhatsapp == Phase("open", "open_whatsapp", Outcomes, "send")

\* Step 7: self.navigate_and_send_message()
NavigateAndSendMessage == Phase("send", "send_message", Outcomes, "close")

\* Step 8: self.close_whatsapp(), which catches every Exception
CloseWhatsapp ==
  Phase("close", "close_whatsapp", {"KeyboardInterrupt"}, "last")

\* Step 9: self.check_balance_and_withdraw()
LastWithdraw == Phase("last", "withdraw", Outcomes, "run_finally")

\* run's except clause (log and raise again) and its finally: cleanup
RunFinally ==
  /\ m_pc = "run_finally"
  /\ cleanups' = cleanups + 1
  /\ m_pc' = IF exc = "none" THEN "main_finally" ELSE "main_except"
  /\ UNCHANGED <<args_complete, args_api, default_method, bot, task_result,
                 exc, exit_code, phases, failed>>
  /\ UNCHANGED notRun

\* the except clauses of main
MainExcept ==
  /\ m_pc = "main_except"
  /\ exit_code' = ExceptReturn(exc)
  /\ m_pc' = "main_finally"
  /\ UNCHANGED <<args_complete, args_api, default_method, bot, task_result,
                 exc, phases, failed, cleanups>>
  /\ UNCHANGED notRun

\* main's finally, then the value of the return statement under way or of
\* the final return 0
MainFinally ==
  /\ m_pc = "main_finally"
  /\ cleanups' = IF bot = "built" /\ ~args_api THEN cleanups + 1 ELSE cleanups
  /\ exit_code' = IF exit_code = NoValue THEN 0 ELSE exit_code
  /\ m_pc' = "exited"
  /\ UNCHANGED <<args_complete, args_api, default_method, bot, task_result,
                 exc, phases, failed>>
  /\ UNCHANGED notRun

\* main is started with any command line and any DEFAULT_METHOD
RunInit ==
  /\ Locals("idle")
  /\ counts = <<>>
  /\ WithdrawLocals("idle", "done", <<>>)
  /\ task_url = "unset"
  /\ url = "other"
  /\ VideoLocals("idle", AnyPage)
  /\ ApiLocals("idle")
  /\ \E c \in BOOLEAN : \E a \in BOOLEAN : \E m \in Methods :
       RunLocals("main", c, a, m)

RunNext ==
  \/ Construct
  \/ ApiOnly
  \/ Login
  \/ SetupTaskPrerequisites
  \/ TaskMethod
  \/ Withdraw
  \/ WaitAndScreenshot
  \/ OpenWhatsapp
  \/ NavigateAndSendMessage
  \/ CloseWhatsapp
  \/ LastWithdraw
  \/ RunFinally
  \/ MainExcept
  \/ MainFinally

RunSpec == RunInit /\ [][RunNext]_vars

(* ---------------------------------------------------------------------- *)
(* complete_tasks_via_api                                                  *)
(* ---------------------------------------------------------------------- *)

\* how a request ends: status 200 with code 1, another status, status 200
\* with another code, or the call raises (no connection, a body that is not
\* JSON, a field that is missing)
Responses == {"ok", "bad_status", "bad_code", "raises"}

\* the task ids the portal uses
TaskIds == {1, 2}

\* data.list of getTaskList and data.lists of taskOrderList
TaskLists == UNION {[1..n -> TaskIds] : n \in 0..MaxList}

\* data.taskNumArr of getTaskList
TaskNumArrs == UNION {[1..n -> 0..MaxList] : n \in 0..1}

\* status_code != 200, or code != 1 in the body
Refused_StatusOnly(r) == r = "bad_status"
Refused(r) == r \in {"bad_status", "bad_code"}

\* tasks_remaining = taskNumArr[0] if taskNumArr else 0
TasksRemaining(arr) == IF arr = <<>> THEN 0 ELSE arr[1]

\* not task_list or tasks_remaining == 0
NoTasks(list, remaining) == list = <<>> \/ remaining = 0

\* where the loop goes on after receiveTask
AfterReceive_Submit(r) == "submit"
AfterReceive(r) == IF r = "ok" THEN "submit" ELSE "order"

\* one request of this iteration
Request(req, id, role, resp) ==
  [req |-> req, id |-> id, role |-> role, resp |-> resp]

\* the login request; every failure of it raises
ApiLogin ==
  /\ a_pc = "login"
  /\ \E r \in Responses :
       a_pc' = IF r = "ok" THEN "fetch" ELSE "raised"
  /\ UNCHANGED <<a_ret, picked, in_progress_task_id, sent, fetched, a_iters>>
  /\ UNCHANGED notApi

\* the head of the loop: getTaskList, the two early returns, the zero check
\* with its break and the return after the loop, the pick of the first task
GetTaskList ==
  /\ a_pc = "fetch"
  /\ a_iters' = IF a_iters < MaxApiIters THEN a_iters + 1 ELSE a_iters
  /\ \E r \in Responses :
       \E list \in (IF r = "ok" THEN TaskLists ELSE {<<>>}) :
         \E arr \in (IF r = "ok" THEN TaskNumArrs ELSE {<<>>}) :
           /\ sent' = <<Request("getTaskList", 0, "none", r)>>
           /\ fetched' = [resp |-> r, list |-> list,
                          remaining |-> TasksRemaining(arr)]
           /\ IF r = "raises"
                THEN /\ a_pc' = "raised"
                     /\ UNCHANGED <<a_ret, picked>>
                ELSE IF Refused(r)
                  THEN /\ a_pc' = "returned"
                       /\ a_ret' = "False"
                       /\ UNCHANGED picked
                  ELSE IF NoTasks(list, TasksRemaining(arr))
                    THEN /\ a_pc' = "returned"
                         /\ a_ret' = "True"
                         /\ UNCHANGED picked
                    ELSE /\ a_pc' = "receive"
                         /\ picked' = list[1]
                         /\ UNCHANGED a_ret
  /\ UNCHANGED in_progress_task_id
  /\ UNCHANGED notApi

\* receiveTask for the picked task
ReceiveTask ==
  /\ a_pc = "receive"
  /\ \E r \in Responses :
       /\ sent' = Append(sent, Request("receiveTask", picked, "picked", r))
       /\ a_pc' = IF r = "raises" THEN "raised" ELSE AfterReceive(r)
  /\ UNCHANGED <<a_ret, picked, in_progress_task_id, fetched, a_iters>>
  /\ UNCHANGED notApi

\* taskOrderList after a refused receiveTask
TaskOrderList ==
  /\ a_pc = "order"
  /\ \E r \in Responses :
       \E lists \in (IF r = "ok" THEN TaskLists ELSE {<<>>}) :
         /\ sent' = Append(sent, Request("taskOrderList",
                                         IF lists = <<>> THEN 0 ELSE lists[1],
                                         "none", r))
         /\ IF r = "raises"
              THEN /\ a_pc' = "raised"
                   /\ UNCHANGED in_progress_task_id
              ELSE IF r = "ok" /\ lists # <<>>
                THEN /\ a_pc' = "submit_in_progress"
                     /\ in_progress_task_id' = lists[1]
                ELSE /\ a_pc' = "fetch"
                     /\ UNCHANGED in_progress_task_id
  /\ UNCHANGED <<a_ret, picked, fetched, a_iters>>
  /\ UNCHANGED notApi

\* submitTask for the first in-progress task, then continue either way
SubmitInProgress ==
  /\ a_pc = "submit_in_progress"
  /\ \E r \in Responses :
       /\ sent' = Append(sent, Request("submitTask", in_progress_task_id,
                                       "in_progress", r))
       /\ a_pc' = IF r = "raises" THEN "raised" ELSE "fetch"
  /\ UNCHANGED <<a_ret, picked, in_progress_task_id, fetched, a_iters>>
  /\ UNCHANGED notApi

\* submitTask for the picked task, then the next iteration either way
SubmitTask ==
  /\ a_pc = "submit"
  /\ \E r \in Responses :
       /\ sent' = Append(sent, Request("submitTask", picked, "picked", r))
       /\ a_pc' = IF r = "raises" THEN "raised" ELSE "fetch"
  /\ UNCHANGED <<a_ret, picked, in_progress_task_id, fetched, a_iters>>
  /\ UNCHANGED notApi

\* complete_tasks_via_api is called
ApiInit ==
  /\ Locals("idle")
  /\ counts = <<>>
  /\ WithdrawLocals("idle", "done", <<>>)
  /\ task_url = "unset"
  /\ url = "other"
  /\ VideoLocals("idle", AnyPage)
  /\ ApiLocals("login")
  /\ RunLocals("idle", FALSE, FALSE, "browser")

ApiNext ==
  \/ ApiLogin
  \/ GetTaskList
  \/ ReceiveTask
  \/ TaskOrderList
  \/ SubmitInProgress
  \/ SubmitTask

ApiSpec == ApiInit /\ [][ApiNext]_vars

(* ---------------------------------------------------------------------- *)
(* start_tasks and complete_tasks_via_api on the same counts               *)
(* ---------------------------------------------------------------------- *)

\* the sequences of remaining counts the portal answers the reads with: up
\* to the first read and max_stalled_attempts more
CountSeqs ==
  UNION {[1..n -> 0..MaxList] : n \in 1..(max_stalled_attempts + 1)}

\* start_tasks reads the next count of the sequence
BrowserRead ==
  /\ Len(readings) < Len(counts)
  /\ ReadOk
  /\ tasks_remaining' = counts[Len(readings) + 1]

\* zero check, classification and abort check
BrowserCheck == Check

\* the click on the first task lands on the video page or on the
\* in-progress page
BrowserClick == ClickTask /\ pc' \in {"video", "mytask"}

\* the in-progress page leads to the video page
BrowserMyTask == MyTask /\ pc' = "video"

\* handle_video_and_submit returns
BrowserVideo == HandleVideo /\ pc' = "loop"

\* the code after the loop (reached by the break of the abort check)
BrowserExit == Exit

\* start_tasks has returned; complete_tasks_via_api is called and its login
\* is accepted
ApiLoginOk == pc = "done" /\ ApiLogin /\ a_pc' = "fetch"

\* getTaskList is accepted and reports the next count of the sequence, with
\* tasks in the list whenever the count is above zero
ApiRead ==
  /\ a_iters < Len(counts)
  /\ GetTaskList
  /\ fetched'.resp = "ok"
  /\ fetched'.remaining = counts[a_iters + 1]
  /\ fetched'.remaining > 0 => fetched'.list # <<>>

\* receiveTask is accepted
ApiReceive == ReceiveTask /\ a_pc' = "submit"

\* submitTask is accepted
ApiSubmit == SubmitTask /\ a_pc' = "fetch"

\* start_tasks is entered, complete_tasks_via_api is still to be called,
\* each against a portal that answers its reads with the same counts
PairInit ==
  /\ Locals("loop")
  /\ counts \in CountSeqs
  /\ WithdrawLocals("idle", "done", <<>>)
  /\ task_url = "taskList"
  /\ url = "taskList"
  /\ VideoLocals("idle", AnyPage)
  /\ ApiLocals("login")
  /\ RunLocals("idle", FALSE, FALSE, "browser")

PairNext ==
  \/ BrowserRead
  \/ BrowserCheck
  \/ BrowserClick
  \/ BrowserMyTask
  \/ BrowserVideo
  \/ BrowserExit
  \/ ApiLoginOk
  \/ ApiRead
  \/ ApiReceive
  \/ ApiSubmit

PairSpec == PairInit /\ [][PairNext]_vars

(* ---------------------------------------------------------------------- *)
(* check_balance_and_withdraw                                              *)
(* ---------------------------------------------------------------------- *)

\* the balance below which no withdrawal is attempted
min_balance == 60

\* largest number of withdrawal records the portal holds at the start
MaxRecords == 2

\* personal balances the account page shows
Balances == {0, min_balance - 1, min_balance, 2 * min_balance}

\* a withdrawal record as the loop over the items sees it: date tells
\* whether its date span is missing ("none") and whether its text contains
\* today_str; details tells whether the spans of the amount and of the
\* gray status are both found
Items == [date : {"none", "today", "other"}, details : BOOLEAN]

\* the record the portal shows for a withdrawal submitted today
NewItem == [date |-> "today", details |-> TRUE]

ItemLists == UNION {[1..n -> Items] : n \in 0..MaxRecords}

\* the loop over withdrawal_items: TRUE when it returns from the function
\* ("already been made today"), FALSE when it ends; an item whose
\* find_element raises NoSuchElementException is skipped
RECURSIVE AlreadyToday(_)
AlreadyToday(items) ==
  IF items = <<>>
    THEN FALSE
    ELSE LET item == Head(items)
         IN  IF item.date = "none"
               THEN AlreadyToday(Tail(items))
               ELSE IF item.date = "today"
                      THEN IF item.details
                             THEN TRUE
                             ELSE AlreadyToday(Tail(items))
                      ELSE AlreadyToday(Tail(items))

\* the call of run that follows the one at pos
NextCall(pos) == IF pos = "withdraw" THEN "last" ELSE "done"

notWithdraw == <<loopv, url, videov, apiv, runv, counts>>

\* the function returns to run
WithdrawReturn ==
  /\ w_pc' = "idle"
  /\ w_pos' = NextCall(w_pos)

\* an exception leaves the function and ends run
WithdrawRaise ==
  /\ w_pc' = "raised"
  /\ w_pos' = "done"

\* the call, steps 0 to 2 and the way to the Withdrawal Records tab
CheckBalance ==
  /\ w_pc = "idle"
  /\ w_pos # "done"
  /\ w_read' = "none"
  /\ \E weekend \in BOOLEAN, balance_value \in Balances, o \in Outcomes :
       IF weekend
         THEN WithdrawReturn
         ELSE IF o = "KeyboardInterrupt"
                THEN WithdrawRaise
                ELSE IF o = "Exception"
                       THEN w_pc' = "handler" /\ w_pos' = w_pos
                       ELSE IF balance_value < min_balance
                              THEN WithdrawReturn
                              ELSE w_pc' = "records" /\ w_pos' = w_pos
  /\ UNCHANGED <<withdrawal_items, submitted>>
  /\ UNCHANGED notWithdraw

\* step 3: the inner try around find_elements and the loop over the items;
\* its except clause logs the error and the function goes on
ReadRecords ==
  /\ w_pc = "records"
  /\ \E o \in Outcomes :
       IF o = "KeyboardInterrupt"
         THEN WithdrawRaise /\ w_read' = w_read
         ELSE IF o = "Exception"
                THEN /\ w_read' = "failed"
                     /\ w_pc' = "form"
                     /\ w_pos' = w_pos
                ELSE /\ w_read' = "ok"
                     /\ IF AlreadyToday(withdrawal_items)
                          THEN WithdrawReturn
                          ELSE w_pc' = "form" /\ w_pos' = w_pos
  /\ UNCHANGED <<withdrawal_items, submitted>>
  /\ UNCHANGED notWithdraw

\* "Proceeding to withdraw 60 PHP": the form, the click on Submit and the
\* verification; before is how the steps up to the click end, after how the
\* verification ends
SubmitWithdrawal ==
  /\ w_pc = "form"
  /\ \E before \in Outcomes, after \in Outcomes :
       IF before = "KeyboardInterrupt"
         THEN WithdrawRaise /\ UNCHANGED <<withdrawal_items, submitted>>
         ELSE IF before = "Exception"
                THEN /\ w_pc' = "handler"
                     /\ w_pos' = w_pos
                     /\ UNCHANGED <<withdrawal_items, submitted>>
                ELSE /\ submitted' = submitted + 1
                     /\ withdrawal_items' = Append(withdrawal_items, NewItem)
                     /\ IF after = "KeyboardInterrupt"
                          THEN WithdrawRaise
                          ELSE IF after = "Exception"
                                 THEN w_pc' = "handler" /\ w_pos' = w_pos
                                 ELSE WithdrawReturn
  /\ UNCHANGED w_read
  /\ UNCHANGED notWithdraw

\* the except clause of the function: it logs and saves a screenshot, which
\* can raise
WithdrawHandler ==
  /\ w_pc = "handler"
  /\ \E o \in Outcomes :
       IF o = "ok" THEN WithdrawReturn ELSE WithdrawRaise
  /\ UNCHANGED <<withdrawal_items, w_read, submitted>>
  /\ UNCHANGED notWithdraw

\* run is at step 4 (the task method returned true or complete_all_steps is
\* set) or at step 9, and the portal holds any records
WithdrawInit ==
  /\ Locals("idle")
  /\ counts = <<>>
  /\ task_url = "unset"
  /\ url = "other"
  /\ Others
  /\ \E pos \in {"withdraw", "last"}, items \in ItemLists :
       WithdrawLocals("idle", pos, items)

WithdrawNext ==
  \/ CheckBalance
  \/ ReadRecords
  \/ SubmitWithdrawal
  \/ WithdrawHandler

WithdrawSpec == WithdrawInit /\ [][WithdrawNext]_vars

(* ---------------------------------------------------------------------- *)
(* Vocabulary of the properties                                            *)
(* ---------------------------------------------------------------------- *)

\* start_tasks has ended, by a return or by an exception that left it
Terminated == pc \in {"done", "raised"}

\* the latest iteration has ended and the function did not return from it
\* through the zero check
IterEnded == outcome \in {"read_fail", "abort", "completed", "task_error"}

\* the function left the loop through the stall ceiling (break, or the while
\* condition turning false)
StallExit == pc = "exit" \/ (pc = "done" /\ outcome # "zero")

\* the reading just made is higher than the reading before it
Rose ==
  /\ pc = "check"
  /\ last_tasks_remaining # Sentinel
  /\ tasks_remaining > last_tasks_remaining

(* ---------------------------------------------------------------------- *)
(* C1                                                                      *)
(* ---------------------------------------------------------------------- *)

\* C1: when start_tasks has returned, it has returned true if and only if
\* at least one task was completed in this invocation, on every exit path.
C1_ReturnsTrueIffTaskCompleted ==
  pc = "done" => (ret = "True" <=> tasks_completed >= 1)

(* ---------------------------------------------------------------------- *)
(* C2                                                                      *)
(* ---------------------------------------------------------------------- *)

\* C2 as stated: for every behaviour of the portal start_tasks eventually
\* ends; it never iterates forever.  (Ending by an escaping exception is
\* counted as ending here: that defect is the subject of C9.)
C2_NeverIteratesForever == <>Terminated

\* C2 amended: unless the remaining count rises again and again, start_tasks
\* eventually ends.
C2_EndsUnlessCountKeepsRising == ([]<>Rose) \/ <>Terminated

\* C2 witness: the loop has ended through the stall ceiling after readings
\* that went down and tasks that were completed.
C2_Witness ==
  /\ pc = "done"
  /\ outcome = "abort"
  /\ decreased
  /\ tasks_completed >= 1

(* ---------------------------------------------------------------------- *)
(* C3                                                                      *)
(* ---------------------------------------------------------------------- *)

\* what P1 gives for the iteration that has just ended
P1Value == IF LowerReading THEN 0 ELSE stalled0 + 1

\* C3 as stated: after every iteration stalled_attempts is 0 when the
\* reading was lower than the one before (or the first), and one more than
\* before the iteration otherwise.
C3_StallMonotonicity == IterEnded => stalled_attempts = P1Value

\* C3 amended: that holds for an iteration whose task attempt did not raise
\* (and for one whose read failed); when the task attempt raised,
\* stalled_attempts is one more than that: 1 after a lower or first reading,
\* two more than before after a reading that is not lower.
C3_StallCounting ==
  IterEnded =>
    stalled_attempts = P1Value + (IF outcome = "task_error" THEN 1 ELSE 0)

\* C3 witness: an iteration with a reading that is not lower and a task
\* attempt that raised has added 2.
C3_Witness ==
  /\ outcome = "task_error"
  /\ ~LowerReading
  /\ stalled_attempts = stalled0 + 2

(* ---------------------------------------------------------------------- *)
(* C4                                                                      *)
(* ---------------------------------------------------------------------- *)

LoopLeft == pc \in {"exit", "done"}

\* C4 as stated: with every task attempt succeeding, readings [5,5,5] end
\* with stalled_attempts = 3 and the loop aborted with false; readings
\* [7,7,4,4,4] give the stalled sequence [0,1,0,1,2] and the loop aborted
\* after the 5th reading.
C4_AbortsAtThirdReading ==
  /\ (tracked /\ readings = <<5, 5, 5>>) =>
        (stalls[3] = 3 /\ LoopLeft /\ (pc = "done" => ret = "False"))
  /\ (tracked /\ readings = <<7, 7, 4, 4, 4>>) =>
        (stalls = <<0, 1, 0, 1, 2>> /\ LoopLeft)

\* C4 amended: the first reading resets the counter, so [5,5,5] ends with
\* stalled_attempts = 2 and the loop still running, and it is the fourth
\* equal reading, [5,5,5,5], that aborts with stalled_attempts = 3 and
\* false; readings [7,7,4,4,4] give [0,1,0,1,2] and the loop is still
\* running after the 5th reading.
C4_AbortsAtThirdStall ==
  /\ (tracked /\ readings = <<5, 5, 5>>) =>
        (stalls = <<0, 1, 2>> /\ ~LoopLeft)
  /\ (tracked /\ readings = <<5, 5, 5, 5>>) =>
        (stalls = <<0, 1, 2, 3>> /\ LoopLeft /\ (pc = "done" => ret = "False"))
  /\ (tracked /\ readings = <<7, 7, 4, 4, 4>>) =>
        (stalls = <<0, 1, 0, 1, 2>> /\ ~LoopLeft)

\* C4 witness: four equal readings, every task attempt succeeded, and the
\* function has returned false.
C4_Witness ==
  /\ tracked
  /\ readings = <<5, 5, 5, 5>>
  /\ pc = "done"
  /\ ret = "False"


(* ---------------------------------------------------------------------- *)
(* C5                                                                      *)
(* ---------------------------------------------------------------------- *)

\* the loop is inside an iteration, past the read
InIteration == pc \in {"check", "select", "mytask", "video", "except"}

\* C5 as stated: the stall exit is taken exactly when three consecutive
\* iterations were non-progressing: never after fewer than three, always at
\* the third.
C5_AbortsExactlyAtThirdIteration ==
  /\ StallExit => streak >= 3
  /\ (IterEnded /\ streak >= 3) => stalled_attempts >= max_stalled_attempts

\* C5 amended: the stall exit is taken exactly when stalled_attempts has
\* reached 3, whatever the remaining count.  One iteration can add 2 (a
\* reading that is not lower, then a task attempt that raises), so the loop
\* aborts after two consecutive non-progressing iterations at the earliest;
\* three consecutive iterations without a lower reading always abort, but a
\* lower reading resets the counter even when the task attempt then raises.
C5_AbortsExactlyAtCeiling ==
  /\ StallExit => (stalled_attempts >= max_stalled_attempts /\ streak >= 2)
  /\ InIteration => stalled_attempts < max_stalled_attempts
  /\ (IterEnded /\ nodrop >= 3) => stalled_attempts >= max_stalled_attempts
  /\ (IterEnded /\ stalled_attempts >= max_stalled_attempts) =>
        pc \in {"loop", "exit", "done", "raised"}

\* C5 witness: the loop has been left through the stall ceiling after only
\* two non-progressing iterations.
C5_Witness == pc = "exit" /\ streak = 2 /\ iters = 2

(* ---------------------------------------------------------------------- *)
(* C6                                                                      *)
(* ---------------------------------------------------------------------- *)

\* C6: a reading of 0 makes start_tasks return at once, without a task
\* attempt and before the stall classification: false when no task was
\* completed, true when at least one was, whatever stalled_attempts is.
C6_ZeroReadingReturns ==
  [][(pc = "check" /\ tasks_remaining = 0) =>
       /\ pc' = "done"
       /\ ret' = (IF tasks_completed >= 1 THEN "True" ELSE "False")
       /\ UNCHANGED <<stalled_attempts, last_tasks_remaining,
                      tasks_completed, url>>]_vars

\* C6 witness: a zero reading with two stalled attempts pending and a task
\* completed has returned true.
C6_Witness ==
  /\ pc = "done"
  /\ outcome = "zero"
  /\ stalled_attempts = 2
  /\ tasks_completed >= 1
  /\ ret = "True"

(* ---------------------------------------------------------------------- *)
(* C7                                                                      *)
(* ---------------------------------------------------------------------- *)

\* C7: at the classification of a non-zero reading the new stalled_attempts
\* is 0 when last_tasks_remaining is -1, stalled_attempts + 1 when
\* tasks_remaining >= last_tasks_remaining, 0 when it is lower; afterwards
\* last_tasks_remaining is the reading just classified.
C7_Classification ==
  [][(pc = "check" /\ tasks_remaining # 0) =>
       /\ stalled_attempts' =
            (IF last_tasks_remaining = -1 THEN 0
             ELSE IF tasks_remaining >= last_tasks_remaining
                  THEN stalled_attempts + 1
                  ELSE 0)
       /\ last_tasks_remaining' = tasks_remaining]_vars

\* C7 witness: a reading equal to the one before has been classified as the
\* second stalled attempt.
C7_Witness ==
  /\ pc = "select"
  /\ last0 # Sentinel
  /\ tasks_remaining >= last0
  /\ stalled_attempts = 2
  /\ last_tasks_remaining = tasks_remaining

(* ---------------------------------------------------------------------- *)
(* C8                                                                      *)
(* ---------------------------------------------------------------------- *)

\* number of readings until the remaining count is 0 (none when no 0 was
\* read)
ReadingsUntilZero == IF tasks_remaining = 0 THEN iters ELSE 0

C9_NoExceptionEscapes == pc # "raised"

(* ---------------------------------------------------------------------- *)
(* C10                                                                     *)
(* ---------------------------------------------------------------------- *)

\* C10: an iteration whose read fails counts exactly one stalled attempt,
\* selects and clicks no task, leaves last_tasks_remaining and
\* tasks_completed unchanged, and the loop goes on to its next test.
C10_ReadFailureIsOneStall ==
  [][/\ (pc = "loop" /\ pc' \in {"loop", "except"}) =>
          /\ tasks_remaining' = Sentinel
          /\ stalled_attempts' =
               (IF pc' = "loop" THEN stalled_attempts + 1 ELSE stalled_attempts)
          /\ UNCHANGED <<last_tasks_remaining, tasks_completed, url>>
     /\ (pc = "except" /\ tasks_remaining = Sentinel) =>
          /\ stalled_attempts' = stalled_attempts + 1
          /\ UNCHANGED <<last_tasks_remaining, tasks_completed>>
          /\ pc' = "loop"]_vars

(* ---------------------------------------------------------------------- *)
(* C11                                                                     *)
(* ---------------------------------------------------------------------- *)

\* C11: when a task attempt has raised and the outer handler has run to its
\* end, the exception was counted as one stalled attempt, tasks_completed
\* was not incremented, navigate_to_task_list was called before the next
\* reading, and the browser was on the task list already or a navigation to
\* the task-list URL stored at session start was issued.  (The handler run
\* that is cut short by its screenshot is the subject of C9.)
C11_TaskErrorRecovers ==
  [][(pc = "except" /\ tasks_remaining # Sentinel /\ pc' = "loop") =>
       /\ stalled_attempts' = stalled_attempts + 1
       /\ tasks_completed' = tasks_completed
       /\ nav_calls' = 1
       /\ \/ url = "taskList" /\ url' = url
          \/ nav_gets' = 1 /\ task_url = "taskList"]_vars

(* ---------------------------------------------------------------------- *)
(* C12                                                                     *)
(* ---------------------------------------------------------------------- *)

\* C12: when an iteration has ended with a failed read of the remaining
\* count and the loop continues, the browser is on the task list or the
\* recovery navigation was issued in that iteration.
C12_ReadFailureRecovers ==
  (pc = "loop" /\ outcome = "read_fail") =>
     (url = "taskList" \/ nav_gets = 1)

(* ---------------------------------------------------------------------- *)
(* C13                                                                     *)
(* ---------------------------------------------------------------------- *)

\* C13 as stated: a call of navigate_to_task_list made while the URL is a
\* task-list URL issues no driver.get and no wait and leaves the URL alone,
\* and a row of calls issues at most one driver.get.
C13_AtMostOneNavigation ==
  [][pc = "idle" =>
       /\ url = "taskList" => UNCHANGED <<url, nav_gets, nav_waits>>
       /\ nav_gets' <= 1]_vars

\* C13 amended: a call made while the URL is a task-list URL issues no
\* driver.get and no wait and leaves the URL alone; every call made while it
\* is not, issues one driver.get (none when self.task_url was never
\* assigned), so a row of calls issues at most one navigation that loads
\* the task list, and as many navigations as calls while driver.get raises
\* or the stored URL is not a task-list URL.
C13_AtMostOneNavigationLands ==
  [][pc = "idle" =>
       /\ url = "taskList" => UNCHANGED <<url, nav_gets, nav_waits>>
       /\ url # "taskList" =>
            nav_gets' = nav_gets + (IF task_url = "unset" THEN 0 ELSE 1)
       /\ (url # "taskList" /\ url' = "taskList") =>
            /\ task_url = "taskList"
            /\ nav_waits' = 1
       /\ task_url = "taskList" => nav_waits' <= 1]_vars

\* C13 witness: three calls issued driver.get, the third one loaded the task
\* list, and the calls after it issued nothing.
C13_Witness ==
  /\ pc = "idle"
  /\ task_url = "taskList"
  /\ url = "taskList"
  /\ nav_gets = 3
  /\ nav_waits = 1
  /\ nav_calls = 5

(* ---------------------------------------------------------------------- *)
(* C14                                                                     *)
(* ---------------------------------------------------------------------- *)

\* C14: with required duration R, monitor_video_progress returns at the
\* first poll whose reading is >= R and returns R itself; a poll that reads
\* less, or nothing, does not return; once it has returned no poll is made;
\* readings 3,6,9,11 with R = 10 return 10 at the 4th poll.
C14_ReturnsAtFirstSufficientReading ==
  [][/\ (v_pc = "poll" /\ elapsed < max_wait_time) =>
          IF reading' # NoValue /\ reading' >= required_seconds
          THEN v_pc' = "submit" /\ monitor_ret' = required_seconds
          ELSE v_pc' = "poll" /\ monitor_ret' = NoValue
     /\ v_pc # "poll" => (polls' = polls \/ polls' = 0)
     /\ (seen' = P4Readings /\ required_seconds' = 10) =>
          (v_pc' = "submit" /\ monitor_ret' = 10 /\ polls' = 4)]_vars

\* C14 witness: the readings 3, 6, 9, 11 with R = 10 have returned 10 at the
\* fourth poll.
C14_Witness ==
  /\ v_pc = "submit"
  /\ required_seconds = 10
  /\ seen = P4Readings
  /\ reading = 11
  /\ polls = 4
  /\ monitor_ret = 10

(* ---------------------------------------------------------------------- *)
(* C15                                                                     *)
(* ---------------------------------------------------------------------- *)

\* the label contains "reset" in some letter case
ResetLabel(l) == \E i \in 1..Len(l) : l[i] \in {"reset", "Reset", "RESET"}

\* the control is displayed and enabled and some selector selects it
Selectable(c) == c.ok /\ SubmitSelect(<<c>>) = c

\* the selector loop has run
Located == v_pc \in {"click", "confirm", "returned", "raised"}

\* C15 as stated: the control submit_completed_task clicks never has a label
\* that contains "reset", and when a selectable "Submit Complete Task"
\* control and a selectable plain "Submit" control are both on the page, the
\* "Submit Complete Task" one is clicked.
C15_PrefersSubmitCompleteTask ==
  /\ submit_button # NoButton => ~ResetLabel(submit_button.label)
  /\ (/\ Located
      /\ \E i, j \in 1..Len(page) :
           /\ Selectable(page[i])
           /\ page[i].label = <<"Submit", "Complete", "Task">>
           /\ Selectable(page[j])
           /\ page[j].label = <<"Submit">>)
     => submit_button.label = <<"Submit", "Complete", "Task">>

\* C15 amended: the control clicked never has a label that contains "reset",
\* and when a selectable "Submit Complete Task" button (a button element
\* that carries the text itself or in a span or div inside it) is on the
\* page, a "Submit Complete Task" control is clicked whatever else is there.
C15_PrefersSubmitCompleteTaskButton ==
  /\ submit_button # NoButton => ~ResetLabel(submit_button.label)
  /\ (/\ Located
      /\ \E i \in 1..Len(page) :
           /\ page[i].ok
           /\ page[i].label = <<"Submit", "Complete", "Task">>
           /\ page[i].tag \in {"button", "button_span"})
     => submit_button.label = <<"Submit", "Complete", "Task">>

\* C15 witness: a plain "Submit" button comes first on the page, a "Submit
\* Complete Task" button after it, and the second one was clicked.
C15_Witness ==
  /\ v_pc = "returned"
  /\ Len(page) = 2
  /\ page[1] = [label |-> <<"Submit">>, tag |-> "button", cls |-> "mybutton",
                ok |-> TRUE]
  /\ page[2].label = <<"Submit", "Complete", "Task">>
  /\ page[2].tag = "button_span"
  /\ submit_button = page[2]

(* ---------------------------------------------------------------------- *)
(* C16                                                                     *)
(* ---------------------------------------------------------------------- *)

\* C16 as stated: handle_video_and_submit never raises because the
\* detection strategies of a sub-step were exhausted: when it has raised, a
\* submit control had been located.
C16_ExhaustionNeverRaises == v_pc = "raised" => submit_button # NoButton

\* C16 amended: starting the playback, reading the required duration and
\* polling the watched duration never raise, whatever they fail to detect
\* (a warning is logged and the sub-flow goes on); locating the submit
\* control raises exactly when no selector yields a control.
C16_OnlySubmitDetectionRaises ==
  [][/\ v_pc \in {"start", "require", "poll"} => v_pc' # "raised"
     /\ v_pc = "submit" => (v_pc' = "raised" <=> submit_button' = NoButton)
     /\ v_pc = "submit" => v_pc' \in {"raised", "click"}]_vars

\* C16 witness: the playback was not started, the requirement was not found,
\* the poll ran into its timeout, each with a warning only, and then the
\* missing submit control raised.
C16_Witness ==
  /\ v_pc = "raised"
  /\ submit_button = NoButton
  /\ {"start", "require", "poll"} \subseteq warned

(* ---------------------------------------------------------------------- *)
(* C17                                                                     *)
(* ---------------------------------------------------------------------- *)

\* C17: main returns 0 only when the run was not ended by an exception, and
\* returns 1 whenever an Exception or a KeyboardInterrupt ended it, with and
\* without --api.
C17_ExitCodeTellsSuccess ==
  m_pc = "exited" =>
    /\ exit_code = 0 => exc = "none"
    /\ exc # "none" => exit_code = 1

(* ---------------------------------------------------------------------- *)
(* C18                                                                     *)
(* ---------------------------------------------------------------------- *)

\* the positions inside the while loop of complete_tasks_via_api
InLoop(p) ==
  p \in {"fetch", "receive", "order", "submit_in_progress", "submit"}

\* the step leaves the loop at the task-list fetch: the fetch was refused
\* and false is returned, or it reported an empty list or zero remaining and
\* true is returned
LeavesAtFetch ==
  /\ a_pc = "fetch"
  /\ \/ /\ fetched'.resp \in {"bad_status", "bad_code"}
        /\ a_pc' = "returned"
        /\ a_ret' = "False"
     \/ /\ fetched'.resp = "ok"
        /\ fetched'.list = <<>> \/ fetched'.remaining = 0
        /\ a_pc' = "returned"
        /\ a_ret' = "True"

\* C18 as stated: complete_tasks_via_api leaves its loop only at the
\* task-list fetch, returning false when the fetch is refused and true when
\* it reports an empty list or zero remaining; nothing else ends the loop.
C18_LeavesLoopOnlyAtFetch ==
  [][(InLoop(a_pc) /\ ~InLoop(a_pc')) => LeavesAtFetch]_vars

\* C18 amended: the loop is left by a return only at the task-list fetch
\* (false when refused, true on an empty list or zero remaining); a refused
\* receiveTask, taskOrderList or submitTask never ends the loop; the only
\* other way out is a request that raises, whose exception leaves the
\* function.
C18_LeavesLoopAtFetchOrByRaise ==
  [][/\ (InLoop(a_pc) /\ a_pc' = "returned") => LeavesAtFetch
     /\ (InLoop(a_pc) /\ a_pc' = "raised")
          => sent'[Len(sent')].resp = "raises"
     /\ (/\ a_pc \in {"receive", "order", "submit_in_progress", "submit"}
         /\ sent'[Len(sent')].resp # "raises")
          => InLoop(a_pc')
     /\ InLoop(a_pc) => (InLoop(a_pc') \/ a_pc' \in {"returned", "raised"})]_vars

\* C18 witness: as many fetches as the model counts were made, and the loop
\* is at its head again after a submitTask that was refused.
C18_Witness ==
  /\ a_pc = "fetch"
  /\ a_iters = MaxApiIters
  /\ sent[Len(sent)].req = "submitTask"
  /\ sent[Len(sent)].resp = "bad_status"

(* ---------------------------------------------------------------------- *)
(* C19                                                                     *)
(* ---------------------------------------------------------------------- *)

\* receiveTask was refused for the task picked in this iteration
ReceiveRefused ==
  /\ Len(sent) >= 2
  /\ sent[2].req = "receiveTask"
  /\ sent[2].resp \in {"bad_status", "bad_code"}

\* what this iteration sends after a refused receiveTask: the in-progress
\* listing, then submitTask for its first task if the listing was accepted
\* and non-empty, and no submitTask for the picked task
FallbackRequests ==
  /\ a_pc = "order" <=> Len(sent) = 2
  /\ Len(sent) >= 3 => sent[3].req = "taskOrderList"
  /\ a_pc = "submit_in_progress"
       <=> (Len(sent) = 3 /\ sent[3].resp = "ok" /\ sent[3].id # 0)
  /\ Len(sent) >= 4 =>
       /\ sent[3].resp = "ok"
       /\ sent[3].id # 0
       /\ sent[4] \in {Request("submitTask", sent[3].id, "in_progress", r) :
                         r \in Responses}
  /\ Len(sent) <= 4
  /\ \A i \in 1..Len(sent) :
       ~(sent[i].req = "submitTask" /\ sent[i].role = "picked")

\* C19 as stated: after a refused receiveTask the iteration queries the
\* in-progress listing, submits the first in-progress task if the listing
\* succeeded and is non-empty, and then, whatever the listing or the submit
\* gave, is back at the task-list fetch without a submitTask for the
\* picked task.
C19_FallbackThenContinue ==
  ReceiveRefused =>
    /\ a_pc \in {"order", "submit_in_progress", "fetch"}
    /\ FallbackRequests

\* C19 amended: the same, but for a listing or submit request that raises:
\* its exception leaves the function, the picked task still not submitted.
C19_FallbackThenContinueOrRaise ==
  ReceiveRefused =>
    /\ a_pc \in {"order", "submit_in_progress", "fetch", "raised"}
    /\ a_pc = "raised" => sent[Len(sent)].resp = "raises"
    /\ a_pc # "raised" => \A i \in 1..Len(sent) : sent[i].resp # "raises"
    /\ FallbackRequests

\* C19 witness: receiveTask was refused, the listing named another task,
\* its submitTask was refused too, and the loop is at the next fetch.
C19_Witness ==
  /\ a_pc = "fetch"
  /\ ReceiveRefused
  /\ Len(sent) = 4
  /\ sent[4].id # picked
  /\ sent[4].resp = "bad_code"

(* ---------------------------------------------------------------------- *)
(* C20                                                                     *)
(* ---------------------------------------------------------------------- *)

\* the phases of run that follow the prerequisites
LaterPhases ==
  {"tasks", "withdraw", "screenshot", "open_whatsapp", "send_message",
   "close_whatsapp"}

\* login or the prerequisites raised an Exception
SetupFailed == failed \in {"login", "setup"} /\ exc = "Exception"

\* C20: when login or the task prerequisites raise in run, no later phase
\* (task loop, withdrawal, screenshot, messaging) is ever started, cleanup
\* is executed before main returns, and main returns 1.
C20_SetupFailureAborts ==
  SetupFailed =>
    /\ \A i \in 1..Len(phases) : phases[i] \notin LaterPhases
    /\ m_pc \in {"run_finally", "main_except", "main_finally", "exited"}
    /\ m_pc # "run_finally" => cleanups >= 1
    /\ m_pc = "main_finally" => exit_code = 1
    /\ m_pc = "exited" => exit_code = 1

\* C20 witness: login succeeded, the prerequisites raised, cleanup ran in
\* run's finally and again in main's, and main returned 1.
C20_Witness ==
  /\ m_pc = "exited"
  /\ failed = "setup"
  /\ exc = "Exception"
  /\ phases = <<"login", "setup">>
  /\ cleanups = 2
  /\ exit_code = 1

(* ---------------------------------------------------------------------- *)
(* C21                                                                     *)
(* ---------------------------------------------------------------------- *)

\* handle_video_and_submit returns to start_tasks in this step
VideoReturned == pc = "video" /\ pc' = "loop"

\* C21: tasks_completed grows by exactly 1 (up to the bound of the model)
\* in the step in which handle_video_and_submit returns, which is taken on a
\* video-task URL only; every other step (read failure, zero reading, stall
\* abort, task-attempt error, handle_video_and_submit raising) leaves it as
\* it is, so it never decreases and grows at most once in an iteration.
C21_CountsReturnedVideos ==
  [][/\ pc = "video" => url = "video"
     /\ VideoReturned =>
          tasks_completed' = IF tasks_completed < MaxCompleted
                             THEN tasks_completed + 1
                             ELSE tasks_completed
     /\ ~VideoReturned => tasks_completed' = tasks_completed
     /\ tasks_completed' >= tasks_completed
     /\ VideoReturned => outcome' = "completed"
     /\ (outcome' = "completed" /\ outcome # "completed") => VideoReturned]_vars

\* C21 witness: a first iteration ended in a task-attempt error that counted
\* nothing, the next one read the same count, reached the video page and
\* counted one task.
C21_Witness ==
  /\ pc = "loop"
  /\ outcome = "completed"
  /\ tasks_completed = 1
  /\ ~tracked
  /\ stalled_attempts = 2

(* ---------------------------------------------------------------------- *)
(* C22                                                                     *)
(* ---------------------------------------------------------------------- *)

\* the text says "submit" in whatever case
SaysSubmit(text) ==
  \E i \in 1..Len(text) : text[i] \in {"submit", "Submit", "SUBMIT"}

\* C22: from the in-progress page the video sub-flow is entered only when
\* the action button was found, its text says "submit" in whatever case and
\* the click led to a video-task URL; a missing button, another text or
\* another URL afterwards make the iteration an error, and an error counts
\* one stalled attempt and no task.
C22_InProgressNeedsSubmitButton ==
  [][/\ pc = "mytask" =>
          /\ pc' \in {"video", "except"}
          /\ pc' = "video" =>
               (button.found /\ SaysSubmit(button.text) /\ url' = "video")
          /\ (~button.found \/ ~SaysSubmit(button.text) \/ url' # "video")
               => pc' = "except"
          /\ stalled_attempts' = stalled_attempts
          /\ tasks_completed' = tasks_completed
     /\ pc = "except" =>
          /\ stalled_attempts' = stalled_attempts + 1
          /\ tasks_completed' = tasks_completed]_vars

\* C22 witness: the click landed on the in-progress page, the button read
\* "Submit", and clicking it led to the video page.
C22_Witness ==
  /\ pc = "video"
  /\ url = "video"
  /\ button = [found |-> TRUE, text |-> <<"Submit">>]

(* ---------------------------------------------------------------------- *)
(* C23                                                                     *)
(* ---------------------------------------------------------------------- *)

\* monitor_video_progress has returned
MonitorReturned == monitor_ret # NoValue

\* C23: handle_video_and_submit goes from the playback to the monitor and
\* from the monitor to the submit and in no other order: the monitor has
\* not returned while the playback is started or the poll runs, it has
\* returned before the submit control is located or clicked, and when it
\* returns - early or by the timeout, whatever value - the next step is the
\* submit.
C23_PlaybackMonitorSubmit ==
  [][/\ v_pc = "start" => v_pc' = "require"
     /\ v_pc = "require" => v_pc' = "poll"
     /\ v_pc = "poll" => v_pc' \in {"poll", "submit"}
     /\ v_pc \in {"start", "require", "poll"} => ~MonitorReturned
     /\ v_pc \in {"submit", "click", "confirm"} => MonitorReturned
     /\ (v_pc = "poll" /\ v_pc' = "poll") => monitor_ret' = NoValue
     /\ v_pc = "submit" => v_pc' \in {"click", "raised"}
     /\ v_pc' = "click" => v_pc = "submit"]_vars

\* C23 witness: the poll ran into its timeout with 3 seconds watched, below
\* every requirement above zero; the submit control was located and clicked
\* all the same and the sub-flow returned.
C23_Witness ==
  /\ v_pc = "returned"
  /\ "poll" \in warned
  /\ monitor_ret = 3
  /\ submit_button # NoButton

(* ---------------------------------------------------------------------- *)
(* C24                                                                     *)
(* ---------------------------------------------------------------------- *)

\* the iteration under way read a count that is not lower than the count
\* of the iteration before it
NotLower ==
  /\ last_tasks_remaining # Sentinel
  /\ tasks_remaining >= last_tasks_remaining

\* C24: when the 15-second wait after the click times out, the sub-flow
\* logs a warning and returns with the URL still on the video page; a
\* sub-flow that returned is counted as a completed task whatever the URL
\* is; and the following iteration always begins and counts a stalled
\* attempt when its read fails or when its count is not lower than before,
\* which is how a submit that did not take effect shows.
C24_UnconfirmedSubmitCountedThenCaught ==
  [][/\ (v_pc = "confirm" /\ "confirm" \in warned') =>
          (v_pc' = "returned" /\ url' = "video")
     /\ (v_pc = "confirm" /\ v_pc' = "returned" /\ url' = "video") =>
          "confirm" \in warned'
     /\ (pc = "video" /\ pc' = "loop") =>
          tasks_completed' = IF tasks_completed < MaxCompleted
                             THEN tasks_completed + 1
                             ELSE tasks_completed
     /\ (pc = "loop" /\ outcome = "completed") =>
          /\ stalled_attempts < max_stalled_attempts
          /\ last_tasks_remaining # Sentinel
          /\ pc' \in {"check", "loop", "except"}
     /\ (pc = "loop" /\ pc' = "loop") =>
          (stalled_attempts' = stalled_attempts + 1 /\ url' = url)
     /\ pc = "except" => stalled_attempts' = stalled_attempts + 1
     /\ (pc = "check" /\ NotLower) =>
          stalled_attempts' = stalled_attempts + 1]_vars

\* C24 witness: the first iteration counted a task and left the browser on
\* the video page; the read of the second iteration failed there and was
\* counted as a stalled attempt.
C24_Witness ==
  /\ pc = "loop"
  /\ iters = 2
  /\ tasks_completed = 1
  /\ outcome = "read_fail"
  /\ url = "video"
  /\ stalled_attempts = 1

(* ---------------------------------------------------------------------- *)
(* C25                                                                     *)
(* ---------------------------------------------------------------------- *)

\* C25: on the same sequence of remaining counts, every task attempt
\* succeeding, start_tasks and complete_tasks_via_api that have both
\* returned made the same number of reads and return the same boolean.
C25_SameReadsSameResult ==
  (pc = "done" /\ a_pc = "returned") =>
    /\ ret = a_ret
    /\ Len(readings) = a_iters

(* ---------------------------------------------------------------------- *)
(* C26                                                                     *)
(* ---------------------------------------------------------------------- *)

\* the screenshot and messaging phases, in the order of run's steps 5 to 8
MessagingOrder ==
  <<"screenshot", "open_whatsapp", "send_message", "close_whatsapp">>

IsMessaging(name) == \E i \in 1..Len(MessagingOrder) : MessagingOrder[i] = name

\* the screenshot and messaging phases started so far, in starting order
MessagingStarted == SelectSeq(phases, IsMessaging)

\* run's task method has returned a boolean
MethodReturned == ~args_api /\ task_result # "none"

\* the task method returned true or complete_all_steps is set
Gate == task_result = "True" \/ args_complete

\* C26: in run, the phases wait_and_screenshot, open_whatsapp,
\* navigate_and_send_message and close_whatsapp are started in that order;
\* one of them is started only when the task method returned true or
\* complete_all_steps is set; with the method returning false and the flag
\* not set none of them is started; and in a run that no exception has ended
\* each of them is executed once the one before it has returned, so that all
\* four have been executed when run reaches its last step.
C26_MessagingIffResultOrFlag ==
  ~args_api =>
    /\ \E n \in 0..Len(MessagingOrder) :
         MessagingStarted = SubSeq(MessagingOrder, 1, n)
    /\ MessagingStarted # <<>> => (MethodReturned /\ Gate)
    /\ (MethodReturned /\ ~Gate) => MessagingStarted = <<>>
    /\ (MethodReturned /\ Gate /\ exc = "none") =>
         Len(MessagingStarted) =
           CASE m_pc \in {"withdraw", "screenshot"} -> 0
             [] m_pc = "open" -> 1
             [] m_pc = "send" -> 2
             [] m_pc = "close" -> 3
             [] OTHER -> 4

\* C26 witness: the task method returned false with complete_all_steps set,
\* and the run executed the four phases in order up to its last step.
C26_Witness ==
  /\ m_pc = "last"
  /\ task_result = "False"
  /\ args_complete
  /\ exc = "none"
  /\ phases = <<"login", "setup", "tasks", "withdraw", "screenshot",
                "open_whatsapp", "send_message", "close_whatsapp">>

(* ---------------------------------------------------------------------- *)
(* C27                                                                     *)
(* ---------------------------------------------------------------------- *)

\* the withdrawal records contain an entry dated today
HasToday == \E i \in 1..Len(withdrawal_items) : withdrawal_items[i].date = "today"

\* this step clicks Submit on the withdrawal form
Submits == submitted' # submitted

\* C27: check_balance_and_withdraw never submits a withdrawal while the
\* records contain an entry dated today, nor after its read of the records
\* failed, and the calls made by one run submit at most one withdrawal.
C27_OneWithdrawalADay ==
  [][/\ Submits => ~HasToday
     /\ Submits => w_read # "failed"
     /\ submitted' <= 1]_vars

(* ---------------------------------------------------------------------- *)
(* C28                                                                     *)
(* ---------------------------------------------------------------------- *)

\* an iteration of the while loop begins in this step
IterationBegins == pc = "loop" /\ pc' # "exit"

\* C28: in start_tasks stalled_attempts is always between 0 and
\* max_stalled_attempts, whatever of a stalled classification, a read
\* failure and a task-attempt error an iteration combines, and no iteration
\* begins with stalled_attempts at the ceiling or above.
C28_StalledWithinCeiling ==
  /\ stalled_attempts \in 0..max_stalled_attempts
  /\ [][/\ stalled_attempts' \in 0..max_stalled_attempts
        /\ IterationBegins => stalled_attempts < max_stalled_attempts]_vars

\* C28 witness: an iteration that began with one stalled attempt counted a
\* second one for its reading and a third one for the error of its task
\* attempt.
C28_Witness ==
  /\ pc = "loop"
  /\ outcome = "task_error"
  /\ stalled0 = 1
  /\ tasks_remaining # Sentinel
  /\ ~LowerReading
  /\ stalled_attempts = max_stalled_attempts

(* ---------------------------------------------------------------------- *)
(* C29                                                                     *)
(* ---------------------------------------------------------------------- *)

\* start_tasks returns true in this step
ReturnsTrue == ret # "True" /\ ret' = "True"

\* C29: start_tasks returns true only in the zero check and with
\* tasks_completed >= 1; the code after the while loop, reached when the
\* condition is false or by the break, is entered with stalled_attempts >=
\* max_stalled_attempts and returns false.
C29_TrueOnlyFromZeroCheck ==
  [][/\ ReturnsTrue =>
          (pc = "check" /\ tasks_remaining = 0 /\ tasks_completed >= 1)
     /\ pc' = "exit" => stalled_attempts' >= max_stalled_attempts
     /\ pc = "exit" => (pc' = "done" /\ ret' = "False")]_vars

\* C29 witness: the loop was left at the ceiling after a task had been
\* completed, and start_tasks returned false.
C29_Witness ==
  /\ pc = "done"
  /\ outcome \in {"abort", "task_error", "read_fail"}
  /\ stalled_attempts = max_stalled_attempts
  /\ tasks_completed >= 1
  /\ ret = "False"

(* ---------------------------------------------------------------------- *)
(* C30                                                                     *)
(* ---------------------------------------------------------------------- *)

\* the positions of this iteration's submitTask requests
SubmitsSent == {i \in 1..Len(sent) : sent[i].req = "submitTask"}

\* request i of this iteration follows an accepted receiveTask for its id
ReceivedBefore(i) ==
  \E j \in 1..(i - 1) :
    /\ sent[j].req = "receiveTask"
    /\ sent[j].id = sent[i].id
    /\ sent[j].resp = "ok"

\* C30: in complete_tasks_via_api a submitTask for the task picked from the
\* task list is sent only after a receiveTask for the same id was accepted
\* in the same iteration, and an iteration sends at most one submitTask, for
\* the picked task or for the first in-progress task.
C30_SubmitAfterReceiveOncePerIteration ==
  /\ \A i \in SubmitsSent : sent[i].role = "picked" => ReceivedBefore(i)
  /\ \A i \in SubmitsSent : sent[i].role = "in_progress" => ~ReceivedBefore(i)
  /\ Cardinality(SubmitsSent) <= 1

\* C30 witness: the iteration fetched the list, had receiveTask accepted for
\* the picked task and sent submitTask for it.
C30_Witness ==
  /\ a_pc = "fetch"
  /\ Len(sent) = 3
  /\ sent[2] = Request("receiveTask", picked, "picked", "ok")
  /\ sent[3].req = "submitTask"
  /\ sent[3].role = "picked"
  /\ sent[3].id = picked

====
